---- MODULE Spec2Model ----
(***************************************************************************)
(* Model of IsolationForestFraudDetector                                   *)
(* (src/fraud_detection/src/models/anomaly_detection.py): the training     *)
(* pipeline (profiling, preprocessing, ensemble training), persistence     *)
(* (save_model / load_model) and stream inference (preprocess_stream_data, *)
(* predict_stream).                                                        *)
(*                                                                         *)
(* Conventions.                                                            *)
(*  - A data-frame cell is a sequence of length at most one: << >> is a    *)
(*    missing value (NaN), <<v>> holds the value v.                        *)
(*  - A frame is [cols |-> sequence of column names,                       *)
(*                rows |-> sequence of functions column -> cell].          *)
(*  - Contamination levels are written in percent (1, 5, 10 for 0.01,     *)
(*    0.05, 0.1); decision scores are kept as integers scaled by 100.      *)
(*  - A risk score is the exact fraction [num, den]; den = 0 is the NaN    *)
(*    that numpy produces for 0.0 / 0.0.                                   *)
(*  - A risk threshold t is written T with t = T / ThresholdDen.           *)
(***************************************************************************)
EXTENDS Integers, Sequences, FiniteSets, TLC

(***************************************************************************)
(* Bounds of the model.                                                    *)
(***************************************************************************)
TrainRows == 4
MaxMissing == 1
MaxBatch == 2
ThresholdDen == 2
MaxLoads == 3

NoneCol == "None"
NA == << >>
NoFrame == [cols |-> << >>, rows |-> << >>]

(***************************************************************************)
(* Generic helpers.                                                        *)
(***************************************************************************)
Abs(x) == IF x < 0 THEN -x ELSE x

Range(s) == {s[i] : i \in DOMAIN s}

RECURSIVE SumSeq(_)
SumSeq(s) == IF s = << >> THEN 0 ELSE Head(s) + SumSeq(Tail(s))

RECURSIVE SetToSortedSeq(_, _)
\* The elements of S in increasing order of the key rank[_].
SetToSortedSeq(S, rank) ==
  IF S = {} THEN << >>
  ELSE LET m == CHOOSE x \in S : \A y \in S : rank[x] <= rank[y]
       IN <<m>> \o SetToSortedSeq(S \ {m}, rank)

RECURSIVE SortInts(_)
\* An integer sequence sorted increasingly (duplicates kept).
SortInts(s) ==
  IF s = << >> THEN << >>
  ELSE LET i == CHOOSE j \in DOMAIN s : \A k \in DOMAIN s : s[j] <= s[k]
           rest == [k \in 1..(Len(s) - 1) |-> IF k < i THEN s[k] ELSE s[k + 1]]
       IN <<s[i]>> \o SortInts(rest)

IndexOf(s, v) == CHOOSE i \in DOMAIN s : s[i] = v

MinOf(s) == CHOOSE x \in Range(s) : \A y \in Range(s) : x <= y
MaxOf(s) == CHOOSE x \in Range(s) : \A y \in Range(s) : x >= y

(***************************************************************************)
(* Data frames (pandas.DataFrame as the code uses it).                     *)
(***************************************************************************)
\* Lexicographic order of the strings that occur as categories; "nan" is
\* str(NaN).
StrOrder == <<"a", "b", "c", "d", "nan", "z">>
StrRank == [s \in Range(StrOrder) |-> IndexOf(StrOrder, s)]

\* dtype pandas.read_csv gives each column of the files of the model.
Dtype(col) ==
  CASE col = "id" -> "int64"
    [] col = "cat" -> "object"
    [] col = "label" -> "int64"
    [] OTHER -> "float64"

HasCol(frame, col) == col \in Range(frame.cols)
NRows(frame) == Len(frame.rows)
\* dtype of a column of a frame read by pandas.read_csv: every column of a
\* file that has a header and no rows is read as object.
DtypeIn(frame, col) == IF NRows(frame) = 0 THEN "object" ELSE Dtype(col)
Column(frame, col) == [i \in DOMAIN frame.rows |-> frame.rows[i][col]]
NonNull(cells) == SelectSeq(cells, LAMBDA c : c # NA)
Values(cells) == [i \in DOMAIN NonNull(cells) |-> NonNull(cells)[i][1]]

\* DataFrame.drop(columns=...) for columns known to be present.
DropCols(frame, S) ==
  [cols |-> SelectSeq(frame.cols, LAMBDA c : c \notin S),
   rows |-> [i \in DOMAIN frame.rows |->
               [c \in (DOMAIN frame.rows[i]) \ S |-> frame.rows[i][c]]]]

\* Assignment frame[col] = cells.
SetCol(frame, col, cells) ==
  [frame EXCEPT !.rows = [i \in DOMAIN frame.rows |->
                            [frame.rows[i] EXCEPT ![col] = cells[i]]]]

\* Series.fillna(value): a NaN fill value leaves the series as it is.
FillNa(cells, fill) == [i \in DOMAIN cells |-> IF cells[i] = NA THEN fill ELSE cells[i]]

\* Series.nunique(): distinct non-null values.
NUnique(cells) == Cardinality(Range(Values(cells)))

\* Series.mode(): the most frequent non-null values, sorted; empty for an
\* all-NaN series.
CountOf(cells, v) == Cardinality({i \in DOMAIN cells : cells[i] = <<v>>})
ModeSet(cells) ==
  {v \in Range(Values(cells)) :
     \A w \in Range(Values(cells)) : CountOf(cells, v) >= CountOf(cells, w)}
ModeFirstStr(cells) ==
  CHOOSE v \in ModeSet(cells) : \A w \in ModeSet(cells) : StrRank[v] <= StrRank[w]

\* Series.median(): NaN (NA) for an all-NaN series.  The numeric domains of
\* the model hold even numbers, so the mean of the two middle values is exact.
Median(cells) ==
  LET s == SortInts(Values(cells))
      n == Len(s)
  IN IF n = 0 THEN NA
     ELSE IF n % 2 = 1 THEN <<s[(n + 1) \div 2]>>
     ELSE <<(s[n \div 2] + s[n \div 2 + 1]) \div 2>>

\* Series.var() < 0.01 (sample variance, ddof = 1; NaN for fewer than two
\* values, and NaN < 0.01 is False):
\*   var = sum (n x_i - S)^2 / (n^2 (n - 1)).
VarBelowHundredth(cells) ==
  LET v == Values(cells)
      n == Len(v)
      S == SumSeq(v)
      sq == SumSeq([i \in DOMAIN v |-> (n * v[i] - S) * (n * v[i] - S)])
  IN n >= 2 /\ 100 * sq < n * n * (n - 1)

(***************************************************************************)
(* Python dicts (insertion ordered) as sequences of [key, val] entries.    *)
(***************************************************************************)
DictHas(d, k) == \E i \in DOMAIN d : d[i].key = k
DictGet(d, k) == d[CHOOSE i \in DOMAIN d : d[i].key = k].val
DictPut(d, k, v) ==
  IF DictHas(d, k)
  THEN [i \in DOMAIN d |-> IF d[i].key = k THEN [key |-> k, val |-> v] ELSE d[i]]
  ELSE Append(d, [key |-> k, val |-> v])

(***************************************************************************)
(* sklearn objects the detector holds.                                     *)
(***************************************************************************)
\* Series.astype(str): a string stays, NaN becomes the string "nan".
AsTypeStr(cell) == IF cell = NA THEN "nan" ELSE cell[1]

\* LabelEncoder.fit: classes_ = np.unique(values), the distinct strings in
\* lexicographic order.
LabelEncoderFit(cells) ==
  SetToSortedSeq({AsTypeStr(cells[i]) : i \in DOMAIN cells}, StrRank)

\* LabelEncoder.transform raises ValueError on a value outside classes_.
LabelEncoderCanTransform(classes, strs) == \A i \in DOMAIN strs : strs[i] \in Range(classes)
LabelEncoderTransform(classes, strs) ==
  [i \in DOMAIN strs |-> <<IndexOf(classes, strs[i]) - 1>>]

\* StandardScaler(): not fitted.
NewScaler == [fitted |-> FALSE, cols |-> << >>, sum |-> << >>, n |-> << >>]

\* StandardScaler.fit on frame[cols]: per-column statistics over the non-null
\* values.  (x - mean) is kept as the integer n*x - sum; the division by the
\* positive per-column standard deviation is left out.
ScalerFit(frame, cols) ==
  [fitted |-> TRUE,
   cols |-> cols,
   sum |-> [c \in Range(cols) |-> SumSeq(Values(Column(frame, c)))],
   n |-> [c \in Range(cols) |-> Len(Values(Column(frame, c)))]]

\* StandardScaler.transform checks that it is fitted and that the columns are
\* those seen by fit, in the same order; NaN passes through.
ScalerCanTransform(scaler, cols) == scaler.fitted /\ scaler.cols = cols
ScalerTransformCell(scaler, col, cell) ==
  IF cell = NA THEN NA ELSE <<scaler.n[col] * cell[1] - scaler.sum[col]>>

RECURSIVE ScalerTransform(_, _, _)
ScalerTransform(scaler, frame, cols) ==
  IF cols = << >> THEN frame
  ELSE LET c == Head(cols)
           f == SetCol(frame, c,
                       [i \in DOMAIN frame.rows |->
                          ScalerTransformCell(scaler, c, frame.rows[i][c])])
       IN ScalerTransform(scaler, f, Tail(cols))

\* IsolationForest.  The fitted forest is abstracted to a fixed anomaly
\* measure: score_samples(x) = - sum |x_c| over the feature columns (rows far
\* from the centre of the standardized data score lower).
ScoreSamples(row, features) ==
  0 - SumSeq([i \in DOMAIN features |-> Abs(row[features[i]][1])])

\* offset_ = np.percentile(score_samples(X), 100 * contamination), linear
\* interpolation, scaled by 100.
Percentile100(scores, contamination) ==
  LET s == SortInts(scores)
      n == Len(s)
      pos == (n - 1) * contamination
      k == pos \div 100
      frac == pos % 100
  IN IF k + 2 <= n
     THEN 100 * s[k + 1] + frac * (s[k + 2] - s[k + 1])
     ELSE 100 * s[n]

\* check_array on the feature matrix X: at least one row and one column and
\* no NaN; a fitted model also wants the columns it was fitted on.
MatrixIsFinite(X) ==
  /\ Len(X.cols) > 0
  /\ NRows(X) > 0
  /\ \A i \in DOMAIN X.rows : \A c \in Range(X.cols) :
       X.rows[i][c] # NA

\* The contamination values IsolationForest.fit accepts: a float in
\* (0, 0.5], here in percent.
ContaminationValid(contamination) == contamination > 0 /\ contamination <= 50

IsolationForestFit(X, contamination) ==
  [contamination |-> contamination,
   feature_names_in_ |-> X.cols,
   offset_ |-> Percentile100([i \in DOMAIN X.rows |-> ScoreSamples(X.rows[i], X.cols)],
                             contamination)]

ModelAccepts(model, X) == MatrixIsFinite(X) /\ X.cols = model.feature_names_in_

\* decision_function = score_samples - offset_ (scaled by 100).
DecisionFunction(model, X) ==
  [i \in DOMAIN X.rows |-> 100 * ScoreSamples(X.rows[i], X.cols) - model.offset_]

\* predict: -1 where decision_function < 0, else 1.
PredictOfScore(score) == IF score < 0 THEN -1 ELSE 1

ModelPredict(model, X) ==
  [i \in DOMAIN X.rows |-> PredictOfScore(DecisionFunction(model, X)[i])]

(***************************************************************************)
(* The detector object.                                                    *)
(***************************************************************************)
\* __init__
InitDetector ==
  [data |-> NoFrame,
   processed_data |-> NoFrame,
   label_column |-> NoneCol,
   is_supervised |-> FALSE,
   use_labels_for_training |-> TRUE,
   primary_keys |-> << >>,
   categorical_columns |-> << >>,
   numerical_columns |-> << >>,
   high_cardinality_columns |-> << >>,
   low_variance_columns |-> << >>,
   label_encoders |-> << >>,
   scaler |-> NewScaler,
   models |-> << >>,
   predictions |-> << >>,
   anomaly_scores |-> << >>,
   results |-> << >>,
   use_risk_score_threshold |-> FALSE,
   risk_score_threshold |-> NA,
   model_save_path |-> NoneCol,
   model_loaded |-> FALSE,
   contamination_levels |-> <<1, 5, 10>>]

\* _analyze_columns
AnalyzeColumns(d) ==
  [d EXCEPT
     !.categorical_columns =
        @ \o SelectSeq(d.data.cols, LAMBDA c : DtypeIn(d.data, c) = "object"),
     !.numerical_columns =
        @ \o SelectSeq(d.data.cols, LAMBDA c : DtypeIn(d.data, c) # "object")]

\* Variant of DetectPrimaryKeys that does not look at the dtype.
DetectPrimaryKeysAnyDtype(d) ==
  [d EXCEPT !.primary_keys =
     @ \o SelectSeq(d.data.cols,
                    LAMBDA c : NUnique(Column(d.data, c)) = NRows(d.data))]

\* _detect_primary_keys
DetectPrimaryKeys(d) ==
  [d EXCEPT !.primary_keys =
     @ \o SelectSeq(d.data.cols,
                    LAMBDA c : /\ NUnique(Column(d.data, c)) = NRows(d.data)
                               /\ DtypeIn(d.data, c) \in {"int64", "object"})]

\* _detect_high_cardinality_columns: nunique / len > 0.5
DetectHighCardinalityColumns(d) ==
  [d EXCEPT !.high_cardinality_columns =
     @ \o SelectSeq(d.categorical_columns,
                    LAMBDA c : 2 * NUnique(Column(d.data, c)) > NRows(d.data))]

\* _detect_low_variance_columns
DetectLowVarianceColumns(d) ==
  [d EXCEPT !.low_variance_columns =
     @ \o SelectSeq(d.numerical_columns,
                    LAMBDA c : c # d.label_column /\ VarBelowHundredth(Column(d.data, c)))]

\* load_and_analyze_data, after pd.read_csv has produced the frame.
LoadAndAnalyzeDataOf(d, frame) ==
  DetectLowVarianceColumns(
    DetectHighCardinalityColumns(
      DetectPrimaryKeys(
        AnalyzeColumns([d EXCEPT !.data = frame]))))

\* The loop of _detect_high_cardinality_columns over the columns left to
\* visit: self.data[col] raises KeyError for a listed column the data does
\* not have, and nunique / len raises ZeroDivisionError for data without
\* rows; the columns appended before the exception stay.
RECURSIVE HighCardinalityLoop(_, _)
HighCardinalityLoop(d, cols) ==
  IF cols = << >> THEN [status |-> "ok", det |-> d]
  ELSE IF ~HasCol(d.data, Head(cols)) THEN [status |-> "KeyError", det |-> d]
  ELSE IF NRows(d.data) = 0 THEN [status |-> "ZeroDivisionError", det |-> d]
  ELSE HighCardinalityLoop(
         IF 2 * NUnique(Column(d.data, Head(cols))) > NRows(d.data)
           THEN [d EXCEPT !.high_cardinality_columns = Append(@, Head(cols))]
           ELSE d,
         Tail(cols))

\* The loop of _detect_low_variance_columns: the label column is skipped
\* before the data is read.
RECURSIVE LowVarianceLoop(_, _)
LowVarianceLoop(d, cols) ==
  IF cols = << >> THEN [status |-> "ok", det |-> d]
  ELSE IF Head(cols) = d.label_column THEN LowVarianceLoop(d, Tail(cols))
  ELSE IF ~HasCol(d.data, Head(cols)) THEN [status |-> "KeyError", det |-> d]
  ELSE LowVarianceLoop(
         IF VarBelowHundredth(Column(d.data, Head(cols)))
           THEN [d EXCEPT !.low_variance_columns = Append(@, Head(cols))]
           ELSE d,
         Tail(cols))

\* load_and_analyze_data on a detector in any state and a file of any
\* number of rows: the four analysis steps in order, the first exception
\* ending the call (it is logged and raised again).
LowVarianceStep(r) ==
  IF r.status # "ok" THEN r ELSE LowVarianceLoop(r.det, r.det.numerical_columns)
HighCardinalityStep(d) ==
  LowVarianceStep(HighCardinalityLoop(d, d.categorical_columns))
LoadAndAnalyzeDataResult(d, frame) ==
  HighCardinalityStep(DetectPrimaryKeys(AnalyzeColumns([d EXCEPT !.data = frame])))

\* The column drops at the head of preprocess_data.
DropTrainingColumns(d) ==
  LET pk == Range(d.primary_keys)
      hc == {c \in Range(d.high_cardinality_columns) : c \notin pk}
      lv == {c \in Range(d.low_variance_columns) : c # d.label_column}
  IN DropCols(d.data, pk \cup hc \cup lv)

\* _handle_missing_values: mode for a categorical column, median otherwise,
\* both taken from the frame being fitted.
RECURSIVE HandleMissingValuesCols(_, _, _)
HandleMissingValuesCols(d, frame, cols) ==
  IF cols = << >> THEN frame
  ELSE LET c == Head(cols)
           cells == Column(frame, c)
           fill == IF c \in Range(d.categorical_columns)
                   THEN <<ModeFirstStr(cells)>>
                   ELSE Median(cells)
           f == IF \E i \in DOMAIN cells : cells[i] = NA
                THEN SetCol(frame, c, FillNa(cells, fill))
                ELSE frame
       IN HandleMissingValuesCols(d, f, Tail(cols))

HandleMissingValues(d, frame) == HandleMissingValuesCols(d, frame, frame.cols)

\* The columns _encode_categorical_variables / _standardize_numerical_features
\* (and their stream variants) work on.
CategoricalColsOf(d, frame) ==
  SelectSeq(frame.cols, LAMBDA c : c \in Range(d.categorical_columns) /\ c # d.label_column)
NumericalColsOf(d, frame) ==
  SelectSeq(frame.cols, LAMBDA c : c \in Range(d.numerical_columns) /\ c # d.label_column)

\* _encode_categorical_variables: the frame with the columns encoded, and the
\* encoders stored under their column.
RECURSIVE EncodeFrame(_, _)
EncodeFrame(frame, cols) ==
  IF cols = << >> THEN frame
  ELSE LET c == Head(cols)
           cells == Column(frame, c)
           classes == LabelEncoderFit(cells)
           strs == [i \in DOMAIN cells |-> AsTypeStr(cells[i])]
       IN EncodeFrame(SetCol(frame, c, LabelEncoderTransform(classes, strs)), Tail(cols))

RECURSIVE EncodersOf(_, _, _)
EncodersOf(encoders, frame, cols) ==
  IF cols = << >> THEN encoders
  ELSE EncodersOf(DictPut(encoders, Head(cols), LabelEncoderFit(Column(frame, Head(cols)))),
                  frame, Tail(cols))

\* _standardize_numerical_features on the encoded frame: the scaler is
\* fitted on the numerical columns and the columns are replaced.
StandardizeNumericalFeatures(d, encoded, num) ==
  IF num = << >> THEN [d EXCEPT !.processed_data = encoded]
  ELSE [d EXCEPT !.processed_data = ScalerTransform(ScalerFit(encoded, num), encoded, num),
                 !.scaler = ScalerFit(encoded, num)]

\* _encode_categorical_variables on the filled frame, then the standardizing.
EncodeCategoricalVariables(d, filled, cat) ==
  StandardizeNumericalFeatures(
    [d EXCEPT !.label_encoders = EncodersOf(d.label_encoders, filled, cat)],
    EncodeFrame(filled, cat),
    NumericalColsOf(d, filled))

\* preprocess_data from the frame its _handle_missing_values call leaves.
PreprocessFilled(d, filled) ==
  EncodeCategoricalVariables(d, filled, CategoricalColsOf(d, filled))

\* preprocess_data
PreprocessDataOf(d) ==
  PreprocessFilled(d, HandleMissingValues(d, DropTrainingColumns(d)))

(***************************************************************************)
(* Training.                                                               *)
(***************************************************************************)
\* Variant of TrainingMatrix in which the supervised approach keeps the
\* label column among the features.
TrainingMatrixWithLabels(d) ==
  IF d.is_supervised /\ HasCol(d.processed_data, d.label_column)
  THEN IF d.use_labels_for_training
       THEN d.processed_data
       ELSE DropCols(d.processed_data, {d.label_column})
  ELSE d.processed_data

\* The feature matrix train_models fits on: the label column is taken out
\* under either learning approach.
TrainingMatrix(d) ==
  IF d.is_supervised /\ HasCol(d.processed_data, d.label_column)
  THEN IF d.use_labels_for_training
       THEN DropCols(d.processed_data, {d.label_column})
       ELSE DropCols(d.processed_data, {d.label_column})
  ELSE d.processed_data

\* Variant of TrainingLevels that trains the requested levels under the
\* risk score policy too.
TrainingLevelsAsRequested(d, contamination_levels) == contamination_levels

\* The levels train_models iterates over.
TrainingLevels(d, contamination_levels) ==
  IF d.use_risk_score_threshold THEN <<10>> ELSE contamination_levels

\* The loop of train_models over the contamination levels: the fit of a
\* level sklearn does not accept raises out of the loop, with the levels
\* before it trained.
RECURSIVE TrainLoop(_, _, _)
TrainLoop(d, X, levels) ==
  IF levels = << >> THEN [status |-> "ok", det |-> d]
  ELSE IF ~ContaminationValid(Head(levels))
  THEN [status |-> "InvalidParameterError", det |-> d]
  ELSE LET c == Head(levels)
           model == IsolationForestFit(X, c)
       IN TrainLoop([d EXCEPT
                       !.models = DictPut(@, c, model),
                       !.predictions = DictPut(@, c, ModelPredict(model, X)),
                       !.anomaly_scores = DictPut(@, c, DecisionFunction(model, X))],
                    X, Tail(levels))

\* train_models: self.models is emptied before the first fit; a fit on a
\* matrix sklearn rejects raises out of the loop.
TrainModelsOf(d, contamination_levels) ==
  LET X == TrainingMatrix(d)
      levels == TrainingLevels(d, contamination_levels)
      cleared == [d EXCEPT !.models = << >>]
  IN IF levels # << >> /\ ContaminationValid(Head(levels)) /\ ~MatrixIsFinite(X)
     THEN [status |-> "ValueError", det |-> cleared]
     ELSE TrainLoop(cleared, X, levels)

\* The contamination argument None of predict_stream; no best model.
NoneLevel == 0

(***************************************************************************)
(* Persistence.                                                            *)
(***************************************************************************)
FormatVersion == "1.0.0"

\* The model_package dict save_model dumps with joblib.
ModelPackage(d, version) ==
  [models |-> d.models,
   scaler |-> d.scaler,
   label_encoders |-> d.label_encoders,
   label_column |-> d.label_column,
   is_supervised |-> d.is_supervised,
   use_labels_for_training |-> d.use_labels_for_training,
   primary_keys |-> d.primary_keys,
   categorical_columns |-> d.categorical_columns,
   numerical_columns |-> d.numerical_columns,
   high_cardinality_columns |-> d.high_cardinality_columns,
   low_variance_columns |-> d.low_variance_columns,
   use_risk_score_threshold |-> d.use_risk_score_threshold,
   risk_score_threshold |-> d.risk_score_threshold,
   contamination_levels |-> d.contamination_levels,
   model_metadata |-> [version |-> version,
                       algorithm |-> "IsolationForest",
                       prediction_mode |-> "batch_training"]]

\* The keys load_model reads from the package, in the order it reads them.
PackageKeys ==
  <<"models", "scaler", "label_encoders", "label_column", "is_supervised",
    "use_labels_for_training", "primary_keys", "categorical_columns",
    "numerical_columns", "high_cardinality_columns", "low_variance_columns",
    "use_risk_score_threshold", "risk_score_threshold", "contamination_levels">>

\* The assignments self.<key> = model_package['<key>'] of load_model, one
\* after the other: a key the package lacks raises KeyError with the
\* attributes before it assigned.
RECURSIVE RestoreKeys(_, _, _)
RestoreKeys(d, package, keys) ==
  IF keys = << >> THEN [status |-> "ok", det |-> d]
  ELSE IF Head(keys) \notin DOMAIN package THEN [status |-> "KeyError", det |-> d]
  ELSE RestoreKeys([d EXCEPT ![Head(keys)] = package[Head(keys)]], package, Tail(keys))

\* load_model: the attributes restored from the package.
RestoreFrom(d, package, model_path) ==
  [d EXCEPT
     !.models = package.models,
     !.scaler = package.scaler,
     !.label_encoders = package.label_encoders,
     !.label_column = package.label_column,
     !.is_supervised = package.is_supervised,
     !.use_labels_for_training = package.use_labels_for_training,
     !.primary_keys = package.primary_keys,
     !.categorical_columns = package.categorical_columns,
     !.numerical_columns = package.numerical_columns,
     !.high_cardinality_columns = package.high_cardinality_columns,
     !.low_variance_columns = package.low_variance_columns,
     !.use_risk_score_threshold = package.use_risk_score_threshold,
     !.risk_score_threshold = package.risk_score_threshold,
     !.contamination_levels = package.contamination_levels,
     !.model_loaded = TRUE,
     !.model_save_path = model_path]

\* load_model on an existing file: joblib.load raises on a file that is not
\* a dump; otherwise the attributes are restored key by key, and
\* model_loaded and model_save_path are set after the last of them.
LoadModelOf(d, package, model_path) ==
  IF "unreadable" \in DOMAIN package THEN [status |-> "UnpicklingError", det |-> d]
  ELSE IF RestoreKeys(d, package, PackageKeys).status # "ok"
  THEN RestoreKeys(d, package, PackageKeys)
  ELSE [status |-> "ok", det |-> RestoreFrom(d, package, model_path)]

(***************************************************************************)
(* Stream inference.                                                       *)
(***************************************************************************)
\* Variant of DropStreamColumns that leaves the high-cardinality columns in
\* the batch.
DropStreamColumnsKeepHighCard(d, stream_data) ==
  LET present == Range(stream_data.cols)
      pk == {c \in Range(d.primary_keys) : c \in present}
      lv == {c \in Range(d.low_variance_columns) :
               c \in present /\ c # d.label_column}
  IN DropCols(stream_data, pk \cup lv)

\* The column drops at the head of preprocess_stream_data.
DropStreamColumns(d, stream_data) ==
  LET present == Range(stream_data.cols)
      pk == {c \in Range(d.primary_keys) : c \in present}
      hc == {c \in Range(d.high_cardinality_columns) :
               c \in present /\ c \notin Range(d.primary_keys)}
      lv == {c \in Range(d.low_variance_columns) :
               c \in present /\ c # d.label_column}
  IN DropCols(stream_data, pk \cup hc \cup lv)

\* The value _handle_missing_values_stream fills a column of the batch with:
\* the mode (or, for an all-NaN column, the first cell) of the batch column if
\* it is categorical, else the median of the batch column.
StreamFillValue(d, data, col) ==
  LET cells == Column(data, col)
  IN IF col \in Range(d.categorical_columns)
     THEN IF ModeSet(cells) # {} THEN <<ModeFirstStr(cells)>> ELSE cells[1]
     ELSE Median(cells)

RECURSIVE HandleMissingValuesStreamCols(_, _, _)
HandleMissingValuesStreamCols(d, data, cols) ==
  IF cols = << >> THEN data
  ELSE LET c == Head(cols)
           cells == Column(data, c)
           f == IF \E i \in DOMAIN cells : cells[i] = NA
                THEN SetCol(data, c, FillNa(cells, StreamFillValue(d, data, c)))
                ELSE data
       IN HandleMissingValuesStreamCols(d, f, Tail(cols))

\* _handle_missing_values_stream
HandleMissingValuesStream(d, data) == HandleMissingValuesStreamCols(d, data, data.cols)

\* Variant of ReplaceUnknown that falls back to the last class.
ReplaceUnknownLast(classes, cells) ==
  [i \in DOMAIN cells |->
     IF AsTypeStr(cells[i]) \in Range(classes) THEN AsTypeStr(cells[i])
     ELSE classes[Len(classes)]]

\* What the batch column is after the replacement of unknown categories in
\* _encode_categorical_variables_stream: values outside classes_ become
\* classes_[0].
ReplaceUnknown(classes, cells) ==
  [i \in DOMAIN cells |->
     IF AsTypeStr(cells[i]) \in Range(classes) THEN AsTypeStr(cells[i]) ELSE classes[1]]

\* The encoder and the strings one column is transformed with: the saved
\* encoder, or, for a categorical column without one, an encoder fitted on
\* the batch column.
StreamEncoder(d, cells, col) ==
  IF DictHas(d.label_encoders, col)
  THEN DictGet(d.label_encoders, col)
  ELSE LabelEncoderFit(cells)
StreamStrings(d, cells, col) ==
  IF DictHas(d.label_encoders, col)
  THEN ReplaceUnknown(DictGet(d.label_encoders, col), cells)
  ELSE [i \in DOMAIN cells |-> AsTypeStr(cells[i])]

\* _encode_categorical_variables_stream over the columns cols:
\* [status, frame]; LabelEncoder.transform raises on a string it does not know.
RECURSIVE EncodeStreamCols(_, _, _)
EncodeStreamCols(d, data, cols) ==
  IF cols = << >> THEN [status |-> "ok", frame |-> data]
  ELSE LET c == Head(cols)
           cells == Column(data, c)
           classes == StreamEncoder(d, cells, c)
           strs == StreamStrings(d, cells, c)
       IN IF ~LabelEncoderCanTransform(classes, strs)
          THEN [status |-> "ValueError: unseen labels", frame |-> NoFrame]
          ELSE EncodeStreamCols(d, SetCol(data, c, LabelEncoderTransform(classes, strs)),
                                Tail(cols))

EncodeCategoricalVariablesStream(d, data) ==
  EncodeStreamCols(d, data, CategoricalColsOf(d, data))

\* preprocess_stream_data: [status, frame], with the fill values it logs and
\* the frame as it is after the encoding step.
StreamFills(d, dropped) ==
  [c \in {c \in Range(dropped.cols) :
            \E i \in DOMAIN dropped.rows : dropped.rows[i][c] = NA} |->
     StreamFillValue(d, dropped, c)]

\* _standardize_numerical_features_stream on the encoded batch.
StandardizeNumericalFeaturesStream(d, fills, encoded, num) ==
  IF num = << >>
  THEN [status |-> "ok", frame |-> encoded, fills |-> fills, encoded |-> encoded]
  ELSE IF ~ScalerCanTransform(d.scaler, num)
  THEN [status |-> "ValueError: scaler", frame |-> NoFrame, fills |-> fills,
        encoded |-> encoded]
  ELSE [status |-> "ok", frame |-> ScalerTransform(d.scaler, encoded, num),
        fills |-> fills, encoded |-> encoded]

\* preprocess_stream_data from the outcome enc of its encoding step.
PreprocessEncoded(d, fills, enc) ==
  IF enc.status # "ok"
  THEN [status |-> enc.status, frame |-> NoFrame, fills |-> fills, encoded |-> NoFrame]
  ELSE StandardizeNumericalFeaturesStream(d, fills, enc.frame,
                                          NumericalColsOf(d, enc.frame))

\* preprocess_stream_data from the batch as it is after the column drops.
PreprocessDropped(d, dropped) ==
  PreprocessEncoded(d, StreamFills(d, dropped),
                    EncodeCategoricalVariablesStream(d, HandleMissingValuesStream(d, dropped)))

PreprocessStreamData(d, stream_data) ==
  IF ~d.model_loaded
  THEN [status |-> "ValueError: No model loaded", frame |-> NoFrame]
  ELSE PreprocessDropped(d, DropStreamColumns(d, stream_data))

\* Variant of RiskScores that measures the distance from the minimum.
RiskScoresFromMin(scores) ==
  [i \in DOMAIN scores |->
     [num |-> scores[i] - MinOf(scores), den |-> MaxOf(scores) - MinOf(scores)]]

\* Risk scores (max_score - scores) / (max_score - min_score) over an array
\* of scores, as exact fractions; 0 / 0 is NaN (den = 0).
RiskScores(scores) ==
  [i \in DOMAIN scores |->
     [num |-> MaxOf(scores) - scores[i], den |-> MaxOf(scores) - MinOf(scores)]]

\* Variant of RiskAtLeast with > in place of >=.
RiskAtLeastStrict(risk, T) == risk.den > 0 /\ risk.num * ThresholdDen > T * risk.den

\* Variant of RiskAtLeast with the comparison turned round.
RiskAtMost(risk, T) == risk.den > 0 /\ risk.num * ThresholdDen <= T * risk.den

\* risk >= T / ThresholdDen; a comparison with NaN is False.
RiskAtLeast(risk, T) == risk.den > 0 /\ risk.num * ThresholdDen >= T * risk.den

\* Classic verdict of a decision score: (scores < 0).astype(int).
ClassicFlag(score) == IF score < 0 THEN 1 ELSE 0

\* _get_risk_score_predictions_stream
GetRiskScorePredictionsStream(d, scores) ==
  IF ~d.use_risk_score_threshold
  THEN [i \in DOMAIN scores |-> ClassicFlag(scores[i])]
  ELSE [i \in DOMAIN scores |->
          IF RiskAtLeast(RiskScores(scores)[i], d.risk_score_threshold[1]) THEN 1 ELSE 0]

\* _get_risk_score_predictions (training path)
GetRiskScorePredictions(d, contamination) ==
  IF ~d.use_risk_score_threshold
  THEN [i \in DOMAIN DictGet(d.predictions, contamination) |->
          IF DictGet(d.predictions, contamination)[i] = -1 THEN 1 ELSE 0]
  ELSE LET scores == DictGet(d.anomaly_scores, contamination)
       IN [i \in DOMAIN scores |->
             IF RiskAtLeast(RiskScores(scores)[i], d.risk_score_threshold[1]) THEN 1 ELSE 0]

\* predict_stream: the result dict, or the error raised and where; pre is
\* what its preprocess_stream_data call returned.
PredictResults(d, stream_data, contamination, pre, processed_data, predictions, scores) ==
  [status |-> "ok",
   stage |-> "done",
   pre |-> pre,
   predictions |-> predictions,
   binary_predictions |-> GetRiskScorePredictionsStream(d, scores),
   scores |-> scores,
   risk_scores |-> RiskScores(scores),
   contamination |-> contamination,
   data_shape |-> <<NRows(stream_data), Len(stream_data.cols)>>,
   processed_shape |-> <<NRows(processed_data), Len(processed_data.cols)>>]

\* predict_stream from model.predict on: sklearn validates the matrix first.
PredictProcessed(d, stream_data, contamination, pre, processed_data, model) ==
  IF ~ModelAccepts(model, processed_data)
  THEN [status |-> "ValueError: model input", stage |-> "scoring", pre |-> pre]
  ELSE PredictResults(d, stream_data, contamination, pre, processed_data,
                      ModelPredict(model, processed_data),
                      DecisionFunction(model, processed_data))

\* Variant of PredictPreprocessed that leaves the label column in the
\* matrix it scores.
PredictPreprocessedKeepLabel(d, stream_data, contamination, pre) ==
  IF pre.status # "ok"
  THEN [status |-> pre.status, stage |-> "preprocess", pre |-> pre]
  ELSE PredictProcessed(d, stream_data, contamination, pre, pre.frame,
                        DictGet(d.models, contamination))

\* predict_stream from the return of its preprocess_stream_data call on.
PredictPreprocessed(d, stream_data, contamination, pre) ==
  IF pre.status # "ok"
  THEN [status |-> pre.status, stage |-> "preprocess", pre |-> pre]
  ELSE PredictProcessed(d, stream_data, contamination, pre,
                        IF d.label_column # NoneCol /\ HasCol(pre.frame, d.label_column)
                        THEN DropCols(pre.frame, {d.label_column}) ELSE pre.frame,
                        DictGet(d.models, contamination))

\* predict_stream once the contamination level is settled.
PredictAtLevel(d, stream_data, contamination) ==
  IF ~DictHas(d.models, contamination)
  THEN [status |-> "ValueError: Contamination level not found", stage |-> "guard"]
  ELSE PredictPreprocessed(d, stream_data, contamination,
                           PreprocessStreamData(d, stream_data))

PredictStream(d, stream_data, contamination_arg) ==
  IF ~d.model_loaded
  THEN [status |-> "ValueError: No model loaded", stage |-> "guard"]
  ELSE IF d.models = << >>
  THEN [status |-> "ValueError: No models available", stage |-> "guard"]
  ELSE PredictAtLevel(d, stream_data,
                      IF contamination_arg = NoneLevel
                      THEN d.models[1].key ELSE contamination_arg)

\* export_results: the rows written per contamination level.
ExportResultsOf(d) ==
  [k \in DOMAIN d.predictions |->
     LET c == d.predictions[k].key
     IN [contamination |-> c,
         anomaly_prediction |-> d.predictions[k].val,
         anomaly_score |-> DictGet(d.anomaly_scores, c),
         is_fraud |-> GetRiskScorePredictions(d, c),
         risk_score |-> RiskScores(DictGet(d.anomaly_scores, c))]]

(***************************************************************************)
(* Evaluation.                                                             *)
(***************************************************************************)
RECURSIVE Fact(_)
Fact(n) == IF n <= 1 THEN 1 ELSE n * Fact(n - 1)

\* The F1 of a class is 2tp / (2tp + fp + fn) with a denominator of at most
\* twice the number of rows: scaled by F1Scale it is an integer.
F1Scale == Fact(2 * TrainRows)

\* The classes sklearn's metrics see: unique_labels(y_true, y_pred).
UniqueLabels(y_true, y_pred) == Range(y_true) \cup Range(y_pred)

\* F1 of class l (a class that is neither predicted nor present scores 0).
ClassF1(y_true, y_pred, l) ==
  LET tp == Cardinality({i \in DOMAIN y_true : y_true[i] = l /\ y_pred[i] = l})
      fp == Cardinality({i \in DOMAIN y_true : y_true[i] # l /\ y_pred[i] = l})
      fn == Cardinality({i \in DOMAIN y_true : y_true[i] = l /\ y_pred[i] # l})
  IN IF 2 * tp + fp + fn = 0 THEN 0 ELSE (2 * tp * F1Scale) \div (2 * tp + fp + fn)

\* f1_score(y_true, y_pred, average='weighted'): the class F1s weighted by
\* the support of the class; the value is scaled by F1Scale and by the number
\* of rows, which is the same for every level evaluated.
F1Score(y_true, y_pred) ==
  LET labels == SetToSortedSeq(UniqueLabels(y_true, y_pred),
                               [l \in UniqueLabels(y_true, y_pred) |-> l])
  IN SumSeq([k \in DOMAIN labels |->
               Cardinality({i \in DOMAIN y_true : y_true[i] = labels[k]})
                 * ClassF1(y_true, y_pred, labels[k])])

\* The metrics evaluate_models stores for one level: accuracy (as the number
\* of rows predicted right), the F1 and the confusion matrix (as its classes).
Metrics(y_true, binary_predictions) ==
  [accuracy |-> Cardinality({i \in DOMAIN y_true : y_true[i] = binary_predictions[i]}),
   f1_score |-> F1Score(y_true, binary_predictions),
   predictions |-> binary_predictions,
   confusion_matrix |-> UniqueLabels(y_true, binary_predictions)]

\* The loop of evaluate_models over self.models.items().
RECURSIVE EvaluateLoop(_, _, _)
EvaluateLoop(d, y_true, entries) ==
  IF entries = << >> THEN d
  ELSE EvaluateLoop(
         [d EXCEPT !.results =
            DictPut(@, Head(entries).key,
                    Metrics(y_true, GetRiskScorePredictions(d, Head(entries).key)))],
         y_true, Tail(entries))

\* evaluate_models: the labels are those of the original data.
EvaluateModelsOf(d) ==
  IF ~d.is_supervised \/ d.label_column = NoneCol THEN d
  ELSE EvaluateLoop([d EXCEPT !.results = << >>],
                    Values(Column(d.data, d.label_column)), d.models)

\* max(self.results.keys(), key=lambda k: self.results[k]['f1_score']): the
\* first key, in the order of the dict, whose F1 is the largest.
BestContamination(results) ==
  results[CHOOSE i \in DOMAIN results :
            /\ \A j \in DOMAIN results : results[j].val.f1_score <= results[i].val.f1_score
            /\ \A j \in 1..(i - 1) : results[j].val.f1_score < results[i].val.f1_score].key

\* print_summary: the best model it reports.  Printing the performance of a
\* level unpacks its confusion matrix into tn, fp, fn, tp, which raises for
\* a matrix that is not 2 x 2.
PrintSummaryOf(d) ==
  IF d.results = << >> THEN [status |-> "ok", best |-> NoneLevel]
  ELSE IF \E i \in DOMAIN d.results : Cardinality(d.results[i].val.confusion_matrix) # 2
  THEN [status |-> "ValueError", best |-> NoneLevel]
  ELSE [status |-> "ok", best |-> BestContamination(d.results)]

\* create_visualizations: it assigns no attribute; the confusion matrix and
\* ROC panels of a supervised, evaluated detector read
\* self.processed_data[self.label_column], a KeyError when preprocessing
\* dropped that column.
CreateVisualizationsOf(d) ==
  IF d.is_supervised /\ d.results # << >> /\ ~HasCol(d.processed_data, d.label_column)
  THEN "KeyError" ELSE "ok"

\* The answers setup_learning_mode stores (contamination levels left at the
\* default).
SetupLearningModeOf(d, label, risk, T) ==
  [d EXCEPT
     !.label_column = IF label = NoneCol THEN @ ELSE label,
     !.is_supervised = (label # NoneCol),
     !.use_risk_score_threshold = risk,
     !.risk_score_threshold = IF risk THEN <<T>> ELSE @]

\* _setup_learning_approach, asked of a supervised detector: choice 1 or 2.
SetupLearningApproachOf(d, use_labels) ==
  IF d.is_supervised THEN [d EXCEPT !.use_labels_for_training = use_labels] ELSE d

(***************************************************************************)
(* Inputs: the CSV files, stream batches and choices the model draws on.   *)
(***************************************************************************)
CatVals == {"a", "b"}
NumVals == {0, 2}
UnseenCat == "z"

CatCells == {<<v>> : v \in CatVals} \cup {NA}
NumCells == {<<v>> : v \in NumVals} \cup {NA}

\* Sort keys of cells (a missing value last).
CatKey(cell) == IF cell = NA THEN Len(StrOrder) + 1 ELSE StrRank[cell[1]]
NumKey(cell) == IF cell = NA THEN 1 + MaxOf(SetToSortedSeq(NumVals, [v \in NumVals |-> v]))
                ELSE cell[1]

\* Training columns: TrainRows cells in nondecreasing order, at most
\* MaxMissing of them missing and at least one not (pandas reads an all-empty
\* column as float64 NaN, never as object).
Missing(col) == Cardinality({i \in DOMAIN col : col[i] = NA})
CatCols ==
  {col \in [1..TrainRows -> CatCells] :
     /\ \A i \in 1..(TrainRows - 1) : CatKey(col[i]) <= CatKey(col[i + 1])
     /\ col[1] # NA
     /\ Missing(col) <= MaxMissing}
NumCols ==
  {col \in [1..TrainRows -> NumCells] :
     /\ \A i \in 1..(TrainRows - 1) : NumKey(col[i]) <= NumKey(col[i + 1])
     /\ col[1] # NA
     /\ Missing(col) <= MaxMissing}

\* The column a training file has where it does not vary.
DefaultCat == [i \in 1..TrainRows |-> IF i = 1 THEN <<"a">> ELSE <<"b">>]
DefaultNum == [i \in 1..TrainRows |-> IF i = TrainRows THEN <<2>> ELSE <<0>>]

TrainCols == <<"id", "cat", "num", "label">>

\* A training file: a unique integer id, one categorical and one float
\* feature, and a binary label.
TrainFile(cat, num) ==
  [cols |-> TrainCols,
   rows |-> [i \in 1..TrainRows |->
               [c \in Range(TrainCols) |->
                  CASE c = "id" -> <<i>>
                    [] c = "cat" -> cat[i]
                    [] c = "num" -> num[i]
                    [] OTHER -> <<IF i = TrainRows THEN 1 ELSE 0>>]]]

\* The training files: one feature column varies, the other is the default.
TrainFiles ==
  {TrainFile(cat, DefaultNum) : cat \in CatCols}
    \cup {TrainFile(DefaultCat, num) : num \in NumCols}

\* Stream batches.
BatchCatCells == CatCells \cup {<<UnseenCat>>}
BatchRows == [cat : BatchCatCells, num : NumCells]

BatchOf(cols, rows) ==
  [cols |-> cols,
   rows |-> [i \in DOMAIN rows |->
               [c \in Range(cols) |->
                  CASE c = "cat" -> rows[i].cat
                    [] c = "num" -> rows[i].num
                    [] c = "id" -> <<i>>
                    [] c = "label" -> <<i % 2>>
                    [] OTHER -> <<0>>]]]

\* Rows of a batch, each multiset of rows once: in nondecreasing order of
\* (cat, num).
RowKey(row) ==
  (Len(StrOrder) + 2) * (IF row.cat = NA THEN Len(StrOrder) + 1 ELSE StrRank[row.cat[1]])
    + (IF row.num = NA THEN Len(StrOrder) + 1 ELSE row.num[1])
RowSeqs(n) ==
  UNION {{rows \in [1..k -> BatchRows] :
            \A i \in 1..(k - 1) : RowKey(rows[i]) <= RowKey(rows[i + 1])} : k \in 1..n}

\* The column layouts of a batch: the two features; the training layout; a
\* feature missing; a column unknown at training time added.
FeatureCols == <<"cat", "num">>
OtherLayouts ==
  {TrainCols, <<"num">>, <<"cat">>, <<"cat", "num", "extra">>}

Batches ==
  {BatchOf(FeatureCols, rows) : rows \in RowSeqs(MaxBatch)}
    \cup {BatchOf(cols, rows) : cols \in OtherLayouts, rows \in RowSeqs(1)}

\* The training files and batches of the serving runs: a file of the
\* defaults, one whose categorical column is of high cardinality and one
\* whose numerical column is constant; a valid one-row and a valid two-row
\* batch (with an unseen category and a missing value), a batch in the
\* training layout, one lacking a feature and one with an unknown column.
HighCardCat ==
  [i \in 1..TrainRows |-> IF i = 1 THEN <<"a">> ELSE IF i = 2 THEN <<"b">> ELSE <<"c">>]
ConstantNum == [i \in 1..TrainRows |-> <<0>>]
ServeFiles ==
  {TrainFile(DefaultCat, DefaultNum), TrainFile(HighCardCat, DefaultNum),
   TrainFile(DefaultCat, ConstantNum)}
ServeBatches ==
  {BatchOf(FeatureCols, <<[cat |-> <<"a">>, num |-> <<0>>]>>),
   BatchOf(FeatureCols, <<[cat |-> <<"b">>, num |-> <<2>>], [cat |-> <<UnseenCat>>, num |-> NA]>>),
   BatchOf(TrainCols, <<[cat |-> <<"a">>, num |-> <<2>>]>>),
   BatchOf(<<"num">>, <<[cat |-> <<"a">>, num |-> <<0>>]>>),
   BatchOf(<<"cat", "num", "extra">>, <<[cat |-> <<"a">>, num |-> <<0>>]>>)}

\* The training runs: a file of the defaults, one whose float column has a
\* different value in every row and one with a high-cardinality and a
\* constant column; any column of the file may be named as the label (here
\* the label or the id); the answers typed at the contamination prompt (the
\* last one is accepted) and the lists passed to train_models, in percent.
UniqueNum == [i \in 1..TrainRows |-> <<2 * (i - 1)>>]
ProfileFiles ==
  {TrainFile(DefaultCat, DefaultNum), TrainFile(DefaultCat, UniqueNum),
   TrainFile(HighCardCat, ConstantNum)}
TrainLabelChoices == {NoneCol, "label", "id"}
ContaminationAnswers ==
  {<<<<5>>>>, <<<<10, 5>>>>, <<<<0, 5>>>>, <<<<5, 100>>>>, <<<<150>>, <<5>>>>}
LevelLists == {<<5, 10>>, <<10, 5>>, <<5, 0>>, <<5, 5>>}

\* The files analysed one after another by one detector: the training
\* files of the profile runs, a file with the header alone and a file with
\* two of the columns.
EmptyFile == [cols |-> TrainCols, rows |-> << >>]
TwoColumnFile == DropCols(TrainFile(DefaultCat, DefaultNum), {"id", "label"})
AnalysisFiles == ProfileFiles \cup {EmptyFile, TwoColumnFile}

LabelChoices == {NoneCol, "label"}
Thresholds == 0..ThresholdDen
LevelChoices == {NoneLevel, 5}
Paths == {"model.joblib"}
\* Paths given to save_model without an extension and with another one, and
\* the extension os.path.splitext finds in each path of the model.
SavePaths == {"model", "model.pkl"}
AllPaths == Paths \cup SavePaths
SplitExt(path) ==
  CASE path = "model" -> ""
    [] path = "model.pkl" -> ".pkl"
    [] OTHER -> ".joblib"
\* The keys of a dumped package that ends before the risk score policy: the
\* keys load_model reads from use_risk_score_threshold on are missing.
PartialKeys ==
  {PackageKeys[i] : i \in 1..(IndexOf(PackageKeys, "use_risk_score_threshold") - 1)}
    \cup {"model_metadata"}
OtherVersion == "2.0.0"

(***************************************************************************)
(* State.                                                                  *)
(*   detector   the attributes of the detector object                      *)
(*   files      the model files on disk: << >> or <<file>>, a file being   *)
(*              the dumped package together with two history fields the    *)
(*              program never reads: the detector that saved it and the    *)
(*              frame its transform was fitted on                          *)
(*   fit_frame  history: the training frame (after the column drops) the   *)
(*              detector's current transform was fitted on                 *)
(*   out        the outcome of the last call                               *)
(*   calls      per caller, the predict_stream invocation it has made on   *)
(*              the detector: where it stands and its local variables      *)
(***************************************************************************)
VARIABLES detector, files, fit_frame, out, calls

vars == <<detector, files, fit_frame, out, calls>>

\* The callers that invoke predict_stream on the detector.
Callers == {1, 2}

\* A caller that has made no call on the detector as it is now.
IdleCall ==
  [pc |-> "idle", passed |-> NoFrame, stream_data |-> NoFrame, level |-> NoneLevel,
   contamination |-> NoneLevel, pre |-> [status |-> "none"], result |-> [status |-> "none", stage |-> "none"],
   after_failure |-> FALSE, overlapped |-> FALSE]

\* No predict_stream call is between its guards and its return.
InFlight(call) == call.pc \in {"preprocessing", "scoring"}
NoCallInFlight == \A c \in Callers : ~InFlight(calls[c])

Init ==
  /\ detector = InitDetector
  /\ files = [p \in AllPaths |-> << >>]
  /\ fit_frame = NoFrame
  /\ out = [op |-> "init", status |-> "ok"]
  /\ calls = [c \in Callers |-> IdleCall]

\* IsolationForestFraudDetector(): a fresh detector replaces the current one.
NewDetector ==
  /\ detector # InitDetector
  /\ NoCallInFlight
  /\ detector' = InitDetector
  /\ fit_frame' = NoFrame
  /\ out' = [op |-> "__init__", status |-> "ok"]
  /\ calls' = [c \in Callers |-> IdleCall]
  /\ UNCHANGED files

\* load_and_analyze_data(file_path): the batch run of the session, by a
\* detector that has read no data yet, before any model file is written.
LoadAndAnalyzeData(frame) ==
  /\ detector.data = NoFrame
  /\ ~detector.model_loaded
  /\ \A p \in AllPaths : files[p] = << >>
  /\ detector' = LoadAndAnalyzeDataOf(detector, frame)
  /\ out' = [op |-> "load_and_analyze_data", status |-> "ok"]
  /\ UNCHANGED <<files, fit_frame, calls>>

\* load_and_analyze_data(file_path) by a detector in any state: nothing in
\* the call empties the column lists of an earlier call.
LoadAndAnalyzeDataAgain(frame) ==
  /\ ~detector.model_loaded
  /\ Len(detector.categorical_columns) + Len(detector.numerical_columns)
       < MaxLoads * Len(TrainCols)
  /\ \E r \in {LoadAndAnalyzeDataResult(detector, frame)} :
       /\ detector' = r.det
       /\ out' = [op |-> "load_and_analyze_data", status |-> r.status,
                  file |-> frame, before |-> detector]
  /\ UNCHANGED <<files, fit_frame, calls>>

\* setup_learning_mode, called as in main() once the data is analysed: the
\* answers to its prompts are the label column (or none), the detection
\* method and, for the risk method, the threshold.
SetupLearningMode(label, risk, T) ==
  /\ out.op = "load_and_analyze_data"
  /\ detector' = [detector EXCEPT
       !.label_column = IF label = NoneCol THEN @ ELSE label,
       !.is_supervised = (label # NoneCol),
       !.use_risk_score_threshold = risk,
       !.risk_score_threshold = IF risk THEN <<T>> ELSE @]
  /\ out' = [op |-> "setup_learning_mode", status |-> "ok"]
  /\ UNCHANGED <<files, fit_frame, calls>>

\* _setup_contamination_levels: the prompt is repeated until an answer has
\* all its values in [0.0, 1.0] (0 to 100 percent); the values are stored
\* sorted.
RECURSIVE SetupContaminationLevelsOf(_, _)
SetupContaminationLevelsOf(d, answers) ==
  IF answers = << >> THEN d
  ELSE IF \A i \in DOMAIN Head(answers) : 0 <= Head(answers)[i] /\ Head(answers)[i] <= 100
  THEN [d EXCEPT !.contamination_levels = SortInts(Head(answers))]
  ELSE SetupContaminationLevelsOf(d, Tail(answers))

\* setup_learning_mode with contamination levels typed at the prompt of
\* _setup_fine_tuning_parameters.
SetupLearningModeLevels(label, risk, T, answers) ==
  /\ out.op = "load_and_analyze_data"
  /\ detector' = SetupContaminationLevelsOf(
                    [detector EXCEPT
                       !.label_column = IF label = NoneCol THEN @ ELSE label,
                       !.is_supervised = (label # NoneCol),
                       !.use_risk_score_threshold = risk,
                       !.risk_score_threshold = IF risk THEN <<T>> ELSE @],
                    answers)
  /\ out' = [op |-> "setup_learning_mode", status |-> "ok", answers |-> answers]
  /\ UNCHANGED <<files, fit_frame, calls>>

\* preprocess_data
PreprocessData ==
  /\ detector.data # NoFrame
  /\ detector' = PreprocessDataOf(detector)
  /\ fit_frame' = DropTrainingColumns(detector)
  /\ out' = [op |-> "preprocess_data", status |-> "ok"]
  /\ UNCHANGED <<files, calls>>

\* train_models()
TrainModels ==
  /\ detector.processed_data # NoFrame
  /\ \E r \in {TrainModelsOf(detector, detector.contamination_levels)} :
       /\ detector' = r.det
       /\ out' = [op |-> "train_models", status |-> r.status]
  /\ UNCHANGED <<files, fit_frame, calls>>

\* train_models(contamination_levels)
TrainModelsWith(contamination_levels) ==
  /\ detector.processed_data # NoFrame
  /\ \E r \in {TrainModelsOf(detector, contamination_levels)} :
       /\ detector' = r.det
       /\ out' = [op |-> "train_models", status |-> r.status,
                  levels |-> contamination_levels]
  /\ UNCHANGED <<files, fit_frame, calls>>

\* evaluate_models
EvaluateModels ==
  /\ detector.processed_data # NoFrame
  /\ detector' = EvaluateModelsOf(detector)
  /\ out' = [op |-> "evaluate_models", status |-> "ok"]
  /\ UNCHANGED <<files, fit_frame, calls>>

\* print_summary
PrintSummary ==
  /\ detector.processed_data # NoFrame
  /\ \E r \in {PrintSummaryOf(detector)} :
       out' = [op |-> "print_summary", status |-> r.status, best |-> r.best]
  /\ UNCHANGED <<detector, files, fit_frame, calls>>

\* export_results
ExportResults ==
  /\ detector.predictions # << >>
  /\ out' = [op |-> "export_results", status |-> "ok", exported |-> ExportResultsOf(detector)]
  /\ UNCHANGED <<detector, files, fit_frame, calls>>

\* save_model(model_path), in the batch run (main() saves in batch mode only).
SaveModel(model_path) ==
  /\ ~detector.model_loaded
  /\ IF detector.models = << >>
     THEN /\ out' = [op |-> "save_model", status |-> "ValueError: No trained models"]
          /\ UNCHANGED <<detector, files>>
     ELSE /\ files' = [files EXCEPT ![model_path] =
                         <<[package |-> ModelPackage(detector, FormatVersion),
                            saved_by |-> [detector EXCEPT !.model_save_path = model_path],
                            fit_frame |-> fit_frame]>>]
          /\ detector' = [detector EXCEPT !.model_save_path = model_path]
          /\ out' = [op |-> "save_model", status |-> "ok", path |-> model_path,
                     arg |-> model_path]
  /\ UNCHANGED <<fit_frame, calls>>

\* A model file written by a build whose format version is not this one.
SaveModelOtherVersion(model_path) ==
  /\ ~detector.model_loaded
  /\ detector.models # << >>
  /\ files' = [files EXCEPT ![model_path] =
                 <<[package |-> ModelPackage(detector, OtherVersion),
                    saved_by |-> detector,
                    fit_frame |-> fit_frame]>>]
  /\ out' = [op |-> "save_model_other_version", status |-> "ok", path |-> model_path]
  /\ UNCHANGED <<detector, fit_frame, calls>>

\* load_model(model_path), by a detector that serves (main() loads a model
\* only in stream mode, into a detector that has read no training data).
LoadModel(model_path) ==
  /\ detector.data = NoFrame
  /\ NoCallInFlight
  /\ IF files[model_path] = << >>
     THEN /\ out' = [op |-> "load_model", status |-> "FileNotFoundError",
                     before |-> detector]
          /\ UNCHANGED <<detector, fit_frame, calls>>
     ELSE \E r \in {LoadModelOf(detector, files[model_path][1].package, model_path)} :
            /\ detector' = r.det
            /\ out' = [op |-> "load_model", status |-> r.status, path |-> model_path,
                       before |-> detector]
            /\ IF r.status = "ok"
               THEN /\ fit_frame' = files[model_path][1].fit_frame
                    /\ calls' = [c \in Callers |-> IdleCall]
               ELSE UNCHANGED <<fit_frame, calls>>
  /\ UNCHANGED files

\* A model file at the path that is a dump of a package with the keys
\* PartialKeys only (a dump save_model of this build did not write).
WritePartialPackage(model_path) ==
  /\ ~detector.model_loaded
  /\ detector.models # << >>
  /\ files' = [files EXCEPT ![model_path] =
                 <<[package |-> [k \in PartialKeys |-> ModelPackage(detector, FormatVersion)[k]],
                    saved_by |-> detector,
                    fit_frame |-> fit_frame]>>]
  /\ out' = [op |-> "write_partial_package", status |-> "ok", path |-> model_path]
  /\ UNCHANGED <<detector, fit_frame, calls>>

\* A file at the model path that is not a joblib dump.
WriteUnreadableFile(model_path) ==
  /\ files[model_path] = << >>
  /\ files' = [files EXCEPT ![model_path] =
                 <<[package |-> [unreadable |-> TRUE],
                    saved_by |-> detector,
                    fit_frame |-> fit_frame]>>]
  /\ out' = [op |-> "write_unreadable_file", status |-> "ok", path |-> model_path]
  /\ UNCHANGED <<detector, fit_frame, calls>>

\* predict_stream(stream_data, contamination): as in the stream branch of
\* main(), one batch is scored per load.  A call rejected before it looks at
\* the batch records no batch.
PredictStreamCall(stream_data, contamination) ==
  /\ out.op # "predict_stream"
  /\ \E result \in {PredictStream(detector, stream_data, contamination)} :
       out' = [op |-> "predict_stream",
               batch |-> IF result.stage = "guard" THEN NoFrame ELSE stream_data,
               level |-> contamination,
               result |-> result]
  /\ UNCHANGED <<detector, files, fit_frame, calls>>

(***************************************************************************)
(* predict_stream step by step, for callers that share the detector.  The  *)
(* steps of a call are its guards, its preprocess_stream_data call and the *)
(* scoring; between two steps of one caller the other may take steps.      *)
(***************************************************************************)
\* The guards at the head of predict_stream: the error raised, or "ok".
PredictStreamGuards(d, contamination_arg) ==
  IF ~d.model_loaded THEN "ValueError: No model loaded"
  ELSE IF d.models = << >> THEN "ValueError: No models available"
  ELSE IF contamination_arg # NoneLevel /\ ~DictHas(d.models, contamination_arg)
  THEN "ValueError: Contamination level not found"
  ELSE "ok"

\* Variant of SelfAfterPredictStream in which a failed call invalidates the
\* loaded artifact.
SelfInvalidatedByFailure(d, result) ==
  IF result.status # "ok" THEN [d EXCEPT !.model_loaded = FALSE] ELSE d

\* The detector after a predict_stream call that ended with result:
\* predict_stream and the methods it calls assign no attribute of self.
SelfAfterPredictStream(d, result) == d

\* Variant of LocalFrame in which the preprocessed frame is a slot shared by
\* the callers (the one of the first caller that is scoring).
SharedFrame(cs, c) ==
  cs[CHOOSE k \in Callers :
       /\ cs[k].pc = "scoring"
       /\ \A j \in Callers : cs[j].pc = "scoring" => k <= j].pre

\* processed_data of predict_stream: a local variable of the call.
LocalFrame(cs, c) == cs[c].pre

\* The caller's frame after preprocess_stream_data: the method works on
\* stream_data.copy(), the frame passed is not written.
CallerFrame(stream_data, pre) == stream_data

\* A failed call has been made on the detector as it is now.
SomeCallFailed(cs) ==
  \E k \in Callers : cs[k].pc = "raised" /\ cs[k].result.stage \in {"preprocess", "scoring"}

\* predict_stream is invoked by caller c: lines 1081-1094.
CallPredictStream(c, stream_data, contamination_arg) ==
  /\ calls[c].pc \in {"idle", "returned", "raised"}
  /\ \E g \in {PredictStreamGuards(detector, contamination_arg)} :
       IF g # "ok"
       THEN /\ calls' = [calls EXCEPT ![c] =
                           [IdleCall EXCEPT !.pc = "raised",
                                            !.result = [status |-> g, stage |-> "guard"]]]
            /\ detector' = SelfAfterPredictStream(detector, [status |-> g, stage |-> "guard"])
       ELSE /\ calls' =
                 [k \in Callers |->
                    IF k = c
                    THEN [IdleCall EXCEPT !.pc = "preprocessing",
                                          !.passed = stream_data,
                                          !.stream_data = stream_data,
                                          !.level = contamination_arg,
                                          !.contamination =
                                             IF contamination_arg = NoneLevel
                                             THEN detector.models[1].key
                                             ELSE contamination_arg,
                                          !.after_failure = SomeCallFailed(calls),
                                          !.overlapped =
                                             \E j \in Callers \ {c} : InFlight(calls[j])]
                    ELSE IF InFlight(calls[k])
                    THEN [calls[k] EXCEPT !.overlapped = TRUE]
                    ELSE calls[k]]
            /\ UNCHANGED detector
  /\ out' = [op |-> "predict_stream_steps", status |-> "ok"]
  /\ UNCHANGED <<files, fit_frame>>

\* The preprocess_stream_data call of caller c's predict_stream: line 1097.
StreamPreprocess(c) ==
  /\ calls[c].pc = "preprocessing"
  /\ \E pre \in {PreprocessStreamData(detector, calls[c].stream_data)} :
       IF pre.status # "ok"
       THEN \E result \in {[status |-> pre.status, stage |-> "preprocess", pre |-> pre]} :
              /\ calls' = [calls EXCEPT ![c].pc = "raised",
                                        ![c].stream_data = CallerFrame(@, pre),
                                        ![c].pre = pre,
                                        ![c].result = result]
              /\ detector' = SelfAfterPredictStream(detector, result)
       ELSE /\ calls' = [calls EXCEPT ![c].pc = "scoring",
                                      ![c].stream_data = CallerFrame(@, pre),
                                      ![c].pre = pre]
            /\ UNCHANGED detector
  /\ UNCHANGED <<files, fit_frame, out>>

\* The rest of caller c's predict_stream: lines 1099-1130.
StreamScore(c) ==
  /\ calls[c].pc = "scoring"
  /\ \E result \in {PredictPreprocessed(detector, calls[c].stream_data,
                                         calls[c].contamination, LocalFrame(calls, c))} :
       /\ calls' = [calls EXCEPT
                      ![c].pc = IF result.status = "ok" THEN "returned" ELSE "raised",
                      ![c].result = result]
       /\ detector' = SelfAfterPredictStream(detector, result)
  /\ UNCHANGED <<files, fit_frame, out>>

(***************************************************************************)
(* The batch branch of main(), step by step.  out holds the step taken     *)
(* last, its outcome and the steps completed so far, in order; an          *)
(* exception in a step ends the run.                                       *)
(***************************************************************************)
MainAfter(step) ==
  /\ out.op = "main"
  /\ out.status = "ok"
  /\ out.done[Len(out.done)] = step

MainOut(step, status) ==
  [op |-> "main", step |-> step, status |-> status,
   done |-> IF status = "ok" THEN Append(out.done, step) ELSE out.done]

\* Step 2: load_and_analyze_data (and the suitability check, answered with
\* "continue").
MainLoad(frame) ==
  /\ detector = InitDetector
  /\ out.op \in {"init", "__init__"}
  /\ \A p \in AllPaths : files[p] = << >>
  /\ detector' = LoadAndAnalyzeDataOf(detector, frame)
  /\ out' = [op |-> "main", step |-> "load_and_analyze_data", status |-> "ok",
             done |-> <<"load_and_analyze_data">>]
  /\ UNCHANGED <<files, fit_frame, calls>>

\* Step 4: setup_learning_mode
MainSetup(label, use_labels, risk, T) ==
  /\ MainAfter("load_and_analyze_data")
  /\ detector' = SetupLearningModeOf(SetupLearningApproachOf(
                    [detector EXCEPT !.is_supervised = (label # NoneCol)], use_labels),
                    label, risk, T)
  /\ out' = MainOut("setup_learning_mode", "ok")
  /\ UNCHANGED <<files, fit_frame, calls>>

\* Step 5: preprocess_data
MainPreprocess ==
  /\ MainAfter("setup_learning_mode")
  /\ detector' = PreprocessDataOf(detector)
  /\ fit_frame' = DropTrainingColumns(detector)
  /\ out' = MainOut("preprocess_data", "ok")
  /\ UNCHANGED <<files, calls>>

\* Step 6: train_models()
MainTrain ==
  /\ MainAfter("preprocess_data")
  /\ \E r \in {TrainModelsOf(detector, detector.contamination_levels)} :
       /\ detector' = r.det
       /\ out' = MainOut("train_models", r.status)
  /\ UNCHANGED <<files, fit_frame, calls>>

\* Step 7: evaluate_models, if supervised
MainEvaluate ==
  /\ MainAfter("train_models")
  /\ detector.is_supervised
  /\ detector' = EvaluateModelsOf(detector)
  /\ out' = MainOut("evaluate_models", "ok")
  /\ UNCHANGED <<files, fit_frame, calls>>

\* Step 8: create_visualizations
MainVisualize ==
  /\ \/ MainAfter("evaluate_models")
     \/ MainAfter("train_models") /\ ~detector.is_supervised
  /\ out' = MainOut("create_visualizations", CreateVisualizationsOf(detector))
  /\ UNCHANGED <<detector, files, fit_frame, calls>>

\* Step 9: export_results
MainExport ==
  /\ MainAfter("create_visualizations")
  /\ out' = MainOut("export_results", "ok")
  /\ UNCHANGED <<detector, files, fit_frame, calls>>

\* Step 10: the model saving prompt, answered with yes and a path, or no.
MainSave(save, model_path) ==
  /\ MainAfter("export_results")
  /\ IF save
     THEN /\ files' = [files EXCEPT ![model_path] =
                         <<[package |-> ModelPackage(detector, FormatVersion),
                            saved_by |-> [detector EXCEPT !.model_save_path = model_path],
                            fit_frame |-> fit_frame]>>]
          /\ detector' = [detector EXCEPT !.model_save_path = model_path]
     ELSE UNCHANGED <<detector, files>>
  /\ out' = MainOut("model_saving", "ok")
  /\ UNCHANGED <<fit_frame, calls>>

\* Step 11: print_summary
MainSummary ==
  /\ MainAfter("model_saving")
  /\ out' = MainOut("print_summary", PrintSummaryOf(detector).status)
  /\ UNCHANGED <<detector, files, fit_frame, calls>>

Next ==
  \/ NewDetector
  \/ \E frame \in TrainFiles : LoadAndAnalyzeData(frame)
  \/ \E label \in LabelChoices, risk \in BOOLEAN, T \in Thresholds :
       SetupLearningMode(label, risk, T)
  \/ PreprocessData
  \/ TrainModels
  \/ ExportResults
  \/ \E p \in Paths : SaveModel(p)
  \/ \E p \in Paths : LoadModel(p)
  \/ \E b \in Batches, c \in LevelChoices : PredictStreamCall(b, c)

Spec == Init /\ [][Next]_vars

\* The persistence steps alone, with model files of another format version
\* on disk.
NextPersist ==
  \/ NewDetector
  \/ \E frame \in TrainFiles : LoadAndAnalyzeData(frame)
  \/ \E label \in LabelChoices, risk \in BOOLEAN, T \in Thresholds :
       SetupLearningMode(label, risk, T)
  \/ PreprocessData
  \/ TrainModels
  \/ \E p \in Paths : SaveModel(p)
  \/ \E p \in Paths : SaveModelOtherVersion(p)
  \/ \E p \in Paths : LoadModel(p)

SpecPersist == Init /\ [][NextPersist]_vars

\* The analysis runs: one detector analyses up to MaxLoads files.
NextAnalysis ==
  \/ NewDetector
  \/ \E frame \in AnalysisFiles : LoadAndAnalyzeDataAgain(frame)

SpecAnalysis == Init /\ [][NextAnalysis]_vars

\* The model files: saved under paths with and without an extension, dumps
\* of a package that lacks keys, or not a dump at all, and loaded.
NextArtifact ==
  \/ NewDetector
  \/ \E frame \in ServeFiles : LoadAndAnalyzeData(frame)
  \/ \E label \in LabelChoices, risk \in BOOLEAN, T \in Thresholds :
       SetupLearningMode(label, risk, T)
  \/ PreprocessData
  \/ TrainModels
  \/ \E p \in SavePaths : SaveModel(p)
  \/ \E p \in SavePaths : WritePartialPackage(p)
  \/ \E p \in SavePaths : WriteUnreadableFile(p)
  \/ \E p \in SavePaths : LoadModel(p)

SpecArtifact == Init /\ [][NextArtifact]_vars

\* Runs of main() in batch mode.
NextMain ==
  \/ NewDetector
  \/ \E frame \in ProfileFiles : MainLoad(frame)
  \/ \E label \in TrainLabelChoices, use_labels \in BOOLEAN, risk \in BOOLEAN,
        T \in Thresholds :
       MainSetup(label, use_labels, risk, T)
  \/ MainPreprocess
  \/ MainTrain
  \/ MainEvaluate
  \/ MainVisualize
  \/ MainExport
  \/ \E save \in BOOLEAN, p \in Paths : MainSave(save, p)
  \/ MainSummary

SpecMain == Init /\ [][NextMain]_vars

\* The serving runs: a model is trained, saved and loaded, and the callers
\* make their predict_stream calls on the loaded detector, step by step.
NextServe ==
  \/ NewDetector
  \/ \E frame \in ServeFiles : LoadAndAnalyzeData(frame)
  \/ \E label \in LabelChoices, risk \in BOOLEAN, T \in Thresholds :
       SetupLearningMode(label, risk, T)
  \/ PreprocessData
  \/ TrainModels
  \/ \E p \in Paths : SaveModel(p)
  \/ \E p \in Paths : LoadModel(p)
  \/ \E c \in Callers, b \in ServeBatches, l \in LevelChoices : CallPredictStream(c, b, l)
  \/ \E c \in Callers : StreamPreprocess(c)
  \/ \E c \in Callers : StreamScore(c)

SpecServe == Init /\ [][NextServe]_vars

\* The training runs: the batch branch of main() up to the summary, with
\* the contamination levels configured or passed to train_models.
NextTrain ==
  \/ NewDetector
  \/ \E frame \in ProfileFiles : LoadAndAnalyzeData(frame)
  \/ \E label \in TrainLabelChoices, risk \in BOOLEAN, T \in Thresholds,
        answers \in ContaminationAnswers :
       SetupLearningModeLevels(label, risk, T, answers)
  \/ PreprocessData
  \/ TrainModels
  \/ \E levels \in LevelLists : TrainModelsWith(levels)
  \/ EvaluateModels
  \/ PrintSummary
  \/ ExportResults

SpecTrain == Init /\ [][NextTrain]_vars

(***************************************************************************)
(* Properties.                                                             *)
(***************************************************************************)
\* A predict_stream call that got as far as looking at its batch.
Scored == out.op = "predict_stream" /\ out.result.stage # "guard"
ScoredOk == out.op = "predict_stream" /\ out.result.status = "ok"

\* C1: in stream preprocessing a missing value of a retained column is filled
\* with the mode (categorical) or median (numerical) of the training data,
\* whatever the batch holds.
C1_StreamFillIsTrainingStatistic ==
  Scored =>
    \A c \in DOMAIN out.result.pre.fills :
      c \in Range(fit_frame.cols) =>
        out.result.pre.fills[c] =
          (IF c \in Range(detector.categorical_columns)
           THEN <<ModeFirstStr(Column(fit_frame, c))>>
           ELSE Median(Column(fit_frame, c)))

\* C2: a row gets the same risk score and the same verdict whatever other row
\* shares its batch: scored together with any second row, it is given what it
\* was given in the batch just scored.
C2_RiskIndependentOfBatch ==
  (ScoredOk /\ out.batch.cols = FeatureCols) =>
    \A i \in DOMAIN out.batch.rows : \A other \in BatchRows :
      LET pair == PredictStream(detector,
                                [cols |-> FeatureCols,
                                 rows |-> <<out.batch.rows[i], other>>],
                                out.level)
          here == out.result.risk_scores[i]
          there == pair.risk_scores[1]
      IN pair.status = "ok" =>
           /\ (here.den = 0) = (there.den = 0)
           /\ here.num * there.den = there.num * here.den
           /\ out.result.binary_predictions[i] = pair.binary_predictions[1]

\* C3: every risk score of a stream result or of an export is a defined value
\* in [0,1], and is 0 when all raw scores are equal.
C3_RiskScoreInUnitInterval ==
  /\ ScoredOk =>
       \A i \in DOMAIN out.result.risk_scores :
         LET r == out.result.risk_scores[i]
         IN /\ r.den > 0 /\ 0 <= r.num /\ r.num <= r.den
            /\ (MinOf(out.result.scores) = MaxOf(out.result.scores) => r.num = 0)
  /\ out.op = "export_results" =>
       \A k \in DOMAIN out.exported : \A i \in DOMAIN out.exported[k].risk_score :
         LET r == out.exported[k].risk_score[i]
         IN r.den > 0 /\ 0 <= r.num /\ r.num <= r.den

\* C4: stream encoding never raises on a value outside the training
\* vocabulary; such a value is encoded as index 0 and a value of the
\* vocabulary as its index in the fitted encoder.
C4_UnseenCategoryEncodedAsZero ==
  Scored =>
    /\ out.result.pre.status # "ValueError: unseen labels"
    /\ \A k \in DOMAIN detector.label_encoders :
         LET c == detector.label_encoders[k].key
             classes == detector.label_encoders[k].val
         IN (c \in Range(out.result.pre.encoded.cols) /\ c # detector.label_column) =>
              \A i \in DOMAIN out.batch.rows :
                out.batch.rows[i][c] # NA =>
                  out.result.pre.encoded.rows[i][c] =
                    (IF \E j \in DOMAIN classes : classes[j] = out.batch.rows[i][c][1]
                     THEN <<(CHOOSE j \in DOMAIN classes :
                               classes[j] = out.batch.rows[i][c][1]) - 1>>
                     ELSE <<0>>)

\* C4 witness: a scored batch holding the unseen category and the second
\* class of a two-class encoder.
C4_Witness ==
  /\ ScoredOk
  /\ DictHas(detector.label_encoders, "cat")
  /\ DictGet(detector.label_encoders, "cat") = <<"a", "b">>
  /\ "cat" \in Range(out.batch.cols)
  /\ \E i, j \in DOMAIN out.batch.rows :
       /\ out.batch.rows[i]["cat"] = <<UnseenCat>>
       /\ out.batch.rows[j]["cat"] = <<"b">>
       /\ out.result.pre.encoded.rows[i]["cat"] = <<0>>
       /\ out.result.pre.encoded.rows[j]["cat"] = <<1>>

\* C5: every fitted encoder is a bijection between the categories of its
\* training column and 0..n-1 whose index 0 is a most frequent category.
C5_EncoderMostFrequentFirst ==
  \A k \in DOMAIN detector.label_encoders :
    LET c == detector.label_encoders[k].key
        classes == detector.label_encoders[k].val
        col == Column(HandleMissingValues(detector, fit_frame), c)
    IN /\ \A i, j \in DOMAIN classes : classes[i] = classes[j] => i = j
       /\ Range(classes) = {AsTypeStr(col[i]) : i \in DOMAIN col}
       /\ classes[1] \in ModeSet(col)

\* C6: predict_stream on a batch lacking a retained feature column fails in
\* the preprocessing step, before any scoring.
C6_MissingColumnFailsInPreprocessing ==
  (Scored /\ \E c \in Range(fit_frame.cols) :
               c # detector.label_column /\ c \notin Range(out.batch.cols)) =>
    (out.result.status # "ok" /\ out.result.stage = "preprocess")

\* C7: columns unknown at training time are ignored: the batch is scored, row
\* for row as it is scored without them.
C7_ExtraColumnsIgnored ==
  Scored =>
    LET known == Range(detector.categorical_columns) \cup Range(detector.numerical_columns)
        extras == {c \in Range(out.batch.cols) : c \notin known}
        base == PredictStream(detector, DropCols(out.batch, extras), out.level)
    IN (extras # {} /\ base.status = "ok") =>
         /\ out.result.status = "ok"
         /\ out.result.predictions = base.predictions
         /\ out.result.binary_predictions = base.binary_predictions
         /\ out.result.scores = base.scores
         /\ out.result.risk_scores = base.risk_scores

\* C8: the verdict follows the active policy alone: Classic flags a row iff
\* its raw score is negative, RiskThreshold t iff its risk score is at least
\* t, in the stream result and in the exported training result.
C8_VerdictFollowsPolicy ==
  /\ ScoredOk =>
       \A i \in DOMAIN out.result.scores :
         (out.result.binary_predictions[i] = 1) =
           (IF detector.use_risk_score_threshold
            THEN /\ out.result.risk_scores[i].den > 0
                 /\ out.result.risk_scores[i].num * ThresholdDen
                      >= detector.risk_score_threshold[1] * out.result.risk_scores[i].den
            ELSE out.result.scores[i] < 0)
  /\ out.op = "export_results" =>
       \A k \in DOMAIN out.exported : \A i \in DOMAIN out.exported[k].is_fraud :
         /\ out.exported[k].is_fraud[i] \in {0, 1}
         /\ (out.exported[k].is_fraud[i] = 1) =
              (IF detector.use_risk_score_threshold
               THEN /\ out.exported[k].risk_score[i].den > 0
                    /\ out.exported[k].risk_score[i].num * ThresholdDen
                         >= detector.risk_score_threshold[1] * out.exported[k].risk_score[i].den
               ELSE out.exported[k].anomaly_score[i] < 0)

\* C8 witness: under a risk threshold of 1.0 a scored batch with a row whose
\* risk score is 1.0, flagged, and a row below it, not flagged.
C8_Witness ==
  /\ ScoredOk
  /\ detector.use_risk_score_threshold
  /\ detector.risk_score_threshold = <<ThresholdDen>>
  /\ \E i, j \in DOMAIN out.result.scores :
       /\ out.result.binary_predictions[i] = 1
       /\ out.result.risk_scores[i].num = out.result.risk_scores[i].den
       /\ out.result.binary_predictions[j] = 0

\* C9: a loaded detector has the models, scaler, encoders, column lists,
\* label column and policy of the detector that saved the file, and scores
\* every batch as that detector does.
C9_RoundTrip ==
  (detector.model_loaded /\ files[detector.model_save_path] # << >>) =>
    LET saver == files[detector.model_save_path][1].saved_by
    IN /\ detector.models = saver.models
       /\ detector.scaler = saver.scaler
       /\ detector.label_encoders = saver.label_encoders
       /\ detector.primary_keys = saver.primary_keys
       /\ detector.categorical_columns = saver.categorical_columns
       /\ detector.numerical_columns = saver.numerical_columns
       /\ detector.high_cardinality_columns = saver.high_cardinality_columns
       /\ detector.low_variance_columns = saver.low_variance_columns
       /\ detector.label_column = saver.label_column
       /\ detector.use_risk_score_threshold = saver.use_risk_score_threshold
       /\ detector.risk_score_threshold = saver.risk_score_threshold
       /\ Scored =>
            LET before == PredictStream(saver, out.batch, out.level)
            IN /\ before.status = out.result.status
               /\ out.result.status = "ok" =>
                    /\ before.predictions = out.result.predictions
                    /\ before.binary_predictions = out.result.binary_predictions
                    /\ before.scores = out.result.scores
                    /\ before.risk_scores = out.result.risk_scores

\* C10: load_model of a file written with another format version fails with
\* a version-mismatch error, restores nothing and does not mark the detector
\* as loaded.
C10_VersionChecked ==
  (/\ out.op = "load_model"
   /\ out.status # "FileNotFoundError"
   /\ files[out.path][1].package.model_metadata.version # FormatVersion) =>
    /\ out.status = "VersionMismatchError"
    /\ detector = out.before
    /\ ~detector.model_loaded

\* The detector as load_model made it from the file it was loaded from.
LoadedArtifact ==
  RestoreFrom(InitDetector, files[detector.model_save_path][1].package,
              detector.model_save_path)

\* C11: whatever calls have been made on a loaded detector, failed ones
\* included, the detector is as load_model made it and each caller's batch is
\* as it was passed; every call that has ended, after a failed call or not,
\* ended with the result the freshly loaded detector gives for its batch.
C11_FailedBatchLeavesArtifact ==
  \A c \in Callers :
    calls[c].passed # NoFrame =>
      /\ detector = LoadedArtifact
      /\ calls[c].stream_data = calls[c].passed
      /\ calls[c].pc \in {"returned", "raised"} =>
           calls[c].result = PredictStream(LoadedArtifact, calls[c].passed, calls[c].level)

\* C11 witness: a call that returned a result on a detector on which a call
\* had failed before it started, the failed call being on record.
C11_Witness ==
  \E c, k \in Callers :
    /\ calls[c].pc = "returned"
    /\ calls[c].after_failure
    /\ calls[c].result.status = "ok"
    /\ calls[k].pc = "raised"
    /\ calls[k].result.stage \in {"preprocess", "scoring"}

\* C12: under every interleaving of the callers' steps, the frame a call
\* scores is the preprocessing of its own batch and the call ends with the
\* result predict_stream gives for its batch when run alone.
C12_ConcurrentCallsIndependent ==
  \A c \in Callers :
    /\ calls[c].pc = "scoring" =>
         calls[c].pre = PreprocessStreamData(detector, calls[c].passed)
    /\ (calls[c].pc \in {"returned", "raised"} /\ calls[c].passed # NoFrame) =>
         calls[c].result = PredictStream(detector, calls[c].passed, calls[c].level)

\* C12 witness: two calls on different batches that overlapped in time and
\* both returned a result.
C12_Witness ==
  /\ \A c \in Callers :
       calls[c].pc = "returned" /\ calls[c].overlapped /\ calls[c].result.status = "ok"
  /\ calls[1].passed # calls[2].passed
  /\ calls[1].result # calls[2].result

(***************************************************************************)
(* C13: the transform is fit exactly once: a preprocess_data call on a     *)
(* detector that has already been preprocessed is rejected, and it leaves  *)
(* the fitted encoders and the scaler as they were.                        *)
(***************************************************************************)
C13_SecondFitRejected ==
  [][(out'.op = "preprocess_data" /\ detector.processed_data # NoFrame)
       => /\ out'.status # "ok"
          /\ detector'.label_encoders = detector.label_encoders
          /\ detector'.scaler = detector.scaler]_vars

(***************************************************************************)
(* C14: predict_stream (and the preprocess_stream_data call in it) is      *)
(* rejected for want of a transform exactly while the detector has neither *)
(* fit its transform (preprocess_data) nor loaded one (load_model); once   *)
(* it has done either, the call is not rejected on that ground.            *)
(***************************************************************************)
C14_ApplyAcceptedOnceFitOrLoaded ==
  out.op = "predict_stream" =>
    (out.result.status = "ValueError: No model loaded"
       <=> (detector.processed_data = NoFrame /\ ~detector.model_loaded))

(***************************************************************************)
(* C15: preprocess_data never drops the label column: a label column that  *)
(* is set and present in the data is a column of processed_data after the  *)
(* call, whatever the profiler classified it as.                           *)
(***************************************************************************)
C15_LabelNeverDropped ==
  (/\ out.op = "preprocess_data"
   /\ detector.label_column # NoneCol
   /\ HasCol(detector.data, detector.label_column))
    => HasCol(detector.processed_data, detector.label_column)

C18_BestIsMaxF1LowestLevel ==
  (out.op = "print_summary" /\ out.status = "ok" /\ detector.results # << >>) =>
    /\ DictHas(detector.results, out.best)
    /\ \A i \in DOMAIN detector.results :
         /\ detector.results[i].val.f1_score
              <= DictGet(detector.results, out.best).f1_score
         /\ detector.results[i].val.f1_score
              = DictGet(detector.results, out.best).f1_score
              => out.best <= detector.results[i].key

(***************************************************************************)
(* C19: a contamination level outside the open interval (0, 1) is rejected *)
(* before any training work starts: the configuration never stores such a  *)
(* level, and a train_models call (Classic detection) whose list contains  *)
(* one fails and leaves models, predictions and anomaly_scores as they     *)
(* were before the call.                                                   *)
(***************************************************************************)
C19_InvalidContaminationRejected ==
  [][/\ out'.op = "setup_learning_mode" =>
          \A i \in DOMAIN detector'.contamination_levels :
            0 < detector'.contamination_levels[i] /\ detector'.contamination_levels[i] < 100
     /\ (/\ out'.op = "train_models"
         /\ ~detector.use_risk_score_threshold
         /\ \E l \in Range(IF "levels" \in DOMAIN out' THEN out'.levels
                             ELSE detector.contamination_levels) : l <= 0 \/ l >= 100)
          => /\ out'.status # "ok"
             /\ detector'.models = detector.models
             /\ detector'.predictions = detector.predictions
             /\ detector'.anomaly_scores = detector.anomaly_scores]_vars

(***************************************************************************)
(* C16: after preprocess_data no column of processed_data is a detected    *)
(* primary key, a high-cardinality column or a low-variance column other   *)
(* than the label, and the same holds of the columns of the frame          *)
(* preprocess_stream_data returns.                                         *)
(***************************************************************************)
RemovalSet ==
  Range(detector.primary_keys)
    \cup Range(detector.high_cardinality_columns)
    \cup (Range(detector.low_variance_columns) \ {detector.label_column})

C16_DroppedColumnsNotRetained ==
  /\ detector.processed_data # NoFrame =>
       Range(detector.processed_data.cols) \cap RemovalSet = {}
  /\ \A c \in Callers :
       calls[c].pre.status = "ok" =>
         Range(calls[c].pre.frame.cols) \cap RemovalSet = {}

\* A batch that carries a primary key and a high-cardinality column of the
\* training data has been preprocessed, and neither is in the frame returned.
C16_Witness ==
  \E c \in Callers :
    /\ calls[c].pre.status = "ok"
    /\ \E k \in Range(detector.primary_keys) : HasCol(calls[c].passed, k)
    /\ \E h \in Range(detector.high_cardinality_columns) :
         h \notin Range(detector.primary_keys) /\ HasCol(calls[c].passed, h)
    /\ Range(calls[c].pre.frame.cols) \cap RemovalSet = {}

(***************************************************************************)
(* C20: for the same scores and two thresholds t1 <= t2 in [0, 1], every   *)
(* row flagged under the risk threshold t2 is flagged under t1, in the     *)
(* stream path and in the training path.                                   *)
(***************************************************************************)
\* The detector with the risk policy at threshold T / ThresholdDen.
WithThreshold(T) ==
  [detector EXCEPT !.use_risk_score_threshold = TRUE, !.risk_score_threshold = <<T>>]

C20_ThresholdMonotone ==
  \A T1 \in Thresholds, T2 \in Thresholds :
    T1 <= T2 =>
      /\ ScoredOk =>
           \A i \in DOMAIN out.result.scores :
             GetRiskScorePredictionsStream(WithThreshold(T2), out.result.scores)[i] = 1
               => GetRiskScorePredictionsStream(WithThreshold(T1), out.result.scores)[i] = 1
      /\ \A k \in DOMAIN detector.anomaly_scores :
           \A i \in DOMAIN detector.anomaly_scores[k].val :
             GetRiskScorePredictions(WithThreshold(T2), detector.anomaly_scores[k].key)[i] = 1
               => GetRiskScorePredictions(WithThreshold(T1), detector.anomaly_scores[k].key)[i] = 1

\* A batch has been scored in which a row is flagged under the lowest
\* threshold and not under the highest, and a row is flagged under both.
C20_Witness ==
  /\ ScoredOk
  /\ \E i, j \in DOMAIN out.result.scores :
       /\ GetRiskScorePredictionsStream(WithThreshold(0), out.result.scores)[i] = 1
       /\ GetRiskScorePredictionsStream(WithThreshold(ThresholdDen), out.result.scores)[i] = 0
       /\ GetRiskScorePredictionsStream(WithThreshold(ThresholdDen), out.result.scores)[j] = 1

(***************************************************************************)
(* C21: save_model given a path without a file extension saves to and      *)
(* returns that path with ".joblib" appended; given a path with an         *)
(* extension it saves to and returns the path as it is.                    *)
(***************************************************************************)
C21_SavePathGetsJoblibExtension ==
  (out.op = "save_model" /\ out.status = "ok") =>
    \E expected \in {IF SplitExt(out.arg) = "" THEN out.arg \o ".joblib" ELSE out.arg} :
      /\ out.path = expected
      /\ files[expected] # << >>
      /\ files[expected][1].package = ModelPackage(detector, FormatVersion)

(***************************************************************************)
(* C29: a load_model call that fails (no file at the path, a file that     *)
(* cannot be read, a package that lacks a field) leaves every attribute of *)
(* the detector as it was before the call.                                 *)
(***************************************************************************)
C29_FailedLoadChangesNothing ==
  (out.op = "load_model" /\ out.status # "ok") => detector = out.before

(***************************************************************************)
(* C22: in the batch flow of main() visualization is the last step: when   *)
(* create_visualizations is called, the result export, the model saving    *)
(* step and the summary have all been done.                                *)
(***************************************************************************)
C22_VisualizationLast ==
  (out.op = "main" /\ out.step = "create_visualizations") =>
    {"export_results", "model_saving", "print_summary"} \subseteq Range(out.done)

(***************************************************************************)
(* C23: the label column of a stream batch has no influence on scoring:    *)
(* predict_stream on a batch that holds the detector's label column gives  *)
(* the scores, risk scores and verdicts it gives on the same batch with    *)
(* the label column removed, or holding other values.                      *)
(***************************************************************************)
\* The batch without its label column, with the labels missing and with
\* the labels flipped.
LabelVariants(stream_data, label) ==
  {DropCols(stream_data, {label}),
   SetCol(stream_data, label, [i \in DOMAIN stream_data.rows |-> NA]),
   SetCol(stream_data, label,
          [i \in DOMAIN stream_data.rows |-> <<1 - stream_data.rows[i][label][1]>>])}

C23_LabelDoesNotInfluenceScoring ==
  (/\ out.op = "predict_stream"
   /\ detector.label_column # NoneCol
   /\ HasCol(out.batch, detector.label_column)) =>
    \A variant \in LabelVariants(out.batch, detector.label_column) :
      \E other \in {PredictStream(detector, variant, out.level)} :
        /\ (other.status = "ok") = (out.result.status = "ok")
        /\ out.result.status = "ok" =>
             /\ other.scores = out.result.scores
             /\ other.risk_scores = out.result.risk_scores
             /\ other.predictions = out.result.predictions
             /\ other.binary_predictions = out.result.binary_predictions

\* A batch that holds the label column of a supervised detector has been
\* scored.
C23_Witness ==
  /\ ScoredOk
  /\ detector.is_supervised
  /\ HasCol(out.batch, detector.label_column)
  /\ Len(out.result.scores) > 0

(***************************************************************************)
(* C24: when a label column is configured and present in the preprocessed  *)
(* data, the feature matrix train_models fits on does not hold the label   *)
(* column, whether use_labels_for_training is true or false, and the       *)
(* labels are still in the original data for evaluate_models.              *)
(***************************************************************************)
C24_LabelNotAFeature ==
  (/\ out.op = "main"
   /\ "train_models" \in Range(out.done)
   /\ detector.label_column # NoneCol
   /\ HasCol(detector.processed_data, detector.label_column)) =>
    /\ \A i \in DOMAIN detector.models :
         detector.label_column \notin Range(detector.models[i].val.feature_names_in_)
    /\ HasCol(detector.data, detector.label_column)

\* Models have been trained under the supervised approach on preprocessed
\* data that holds the label column, and evaluated against the labels.
C24_Witness ==
  /\ out.op = "main"
  /\ "evaluate_models" \in Range(out.done)
  /\ detector.use_labels_for_training
  /\ HasCol(detector.processed_data, detector.label_column)
  /\ detector.models # << >>
  /\ detector.results # << >>

(***************************************************************************)
(* C25: under the risk score policy a train_models call fits exactly one   *)
(* model, keyed by contamination 0.1, whatever levels are configured or    *)
(* passed; under the Classic policy it fits exactly one model per distinct *)
(* level requested.                                                        *)
(***************************************************************************)
C25_ModelsPerPolicy ==
  (out.op = "train_models" /\ out.status = "ok") =>
    \E requested \in {IF "levels" \in DOMAIN out THEN out.levels
                      ELSE detector.contamination_levels} :
      IF detector.use_risk_score_threshold
      THEN [i \in DOMAIN detector.models |-> detector.models[i].key] = <<10>>
      ELSE /\ {detector.models[i].key : i \in DOMAIN detector.models} = Range(requested)
           /\ Len(detector.models) = Cardinality(Range(requested))

\* Under the risk score policy two levels were passed to train_models and
\* one model, for 0.1, has been trained.
C25_Witness ==
  /\ out.op = "train_models"
  /\ out.status = "ok"
  /\ detector.use_risk_score_threshold
  /\ "levels" \in DOMAIN out
  /\ out.levels = <<5, 10>>
  /\ Len(detector.models) = 1
  /\ detector.models[1].key = 10

(***************************************************************************)
(* C27: after any sequence of train_models calls on a detector,            *)
(* predictions and anomaly_scores have the contamination keys of models    *)
(* and no others, and export_results exports the results of the models     *)
(* currently trained only.                                                 *)
(***************************************************************************)
C27_ResultsOfCurrentModelsOnly ==
  /\ (out.op = "train_models" /\ out.status = "ok") =>
       /\ {detector.predictions[i].key : i \in DOMAIN detector.predictions}
            = {detector.models[i].key : i \in DOMAIN detector.models}
       /\ {detector.anomaly_scores[i].key : i \in DOMAIN detector.anomaly_scores}
            = {detector.models[i].key : i \in DOMAIN detector.models}
  /\ (out.op = "export_results" /\ detector.models # << >>) =>
       \A k \in DOMAIN out.exported : DictHas(detector.models, out.exported[k].contamination)

\* C26: analysing a file that has columns and no rows, by a fresh detector,
\* completes without an exception and lists no primary key, no
\* high-cardinality column and no low-variance column.
C26_EmptyDatasetProfilesEmpty ==
  (/\ out.op = "load_and_analyze_data"
   /\ "file" \in DOMAIN out
   /\ out.before = InitDetector
   /\ out.file.cols # << >>
   /\ NRows(out.file) = 0)
    => /\ out.status = "ok"
       /\ detector.primary_keys = << >>
       /\ detector.high_cardinality_columns = << >>
       /\ detector.low_variance_columns = << >>

\* C28: once load_and_analyze_data(f) has returned, each of the five column
\* lists holds columns of f alone, none of them twice, and the categorical
\* and the numerical columns partition the columns of f, whatever the
\* detector analysed before.
C28_ColumnListsDescribeTheFile ==
  (/\ out.op = "load_and_analyze_data"
   /\ "file" \in DOMAIN out
   /\ out.status = "ok")
    => /\ \A L \in {detector.categorical_columns, detector.numerical_columns,
                     detector.primary_keys, detector.high_cardinality_columns,
                     detector.low_variance_columns} :
            /\ Range(L) \subseteq Range(out.file.cols)
            /\ Cardinality(Range(L)) = Len(L)
       /\ Range(detector.categorical_columns) \cup Range(detector.numerical_columns)
            = Range(out.file.cols)
       /\ Range(detector.categorical_columns) \cap Range(detector.numerical_columns) = {}

\* C30: under the risk threshold policy, whatever the threshold in [0, 1],
\* a scored batch whose raw scores are not all equal has a flagged row: each
\* row with the minimum raw score has risk score 1.0 and the anomaly
\* verdict.
C30_LowestScoreAlwaysFlagged ==
  (/\ ScoredOk
   /\ detector.use_risk_score_threshold
   /\ MinOf(out.result.scores) # MaxOf(out.result.scores))
    => \A i \in DOMAIN out.result.scores :
         out.result.scores[i] = MinOf(out.result.scores) =>
           /\ out.result.risk_scores[i].den > 0
           /\ out.result.risk_scores[i].num = out.result.risk_scores[i].den
           /\ out.result.binary_predictions[i] = 1

\* C30 witness: under a positive threshold a scored batch of two rows with
\* different raw scores; the row with the lower score is flagged.
C30_Witness ==
  /\ ScoredOk
  /\ detector.use_risk_score_threshold
  /\ detector.risk_score_threshold[1] > 0
  /\ Len(out.result.scores) = 2
  /\ \E i, j \in DOMAIN out.result.scores :
       /\ out.result.scores[i] < out.result.scores[j]
       /\ out.result.binary_predictions[i] = 1


====
